---- MODULE Spec2Model ----
(***************************************************************************)
(* A model of the resume-ai Flask application (src/app.py).                *)
(*                                                                         *)
(* Texts are sequences of one-character strings.  Every route handler is   *)
(* one action; the request it served and the response it produced are      *)
(* kept in the variables request and response.  Scores are kept as        *)
(* integers counting hundredths of a percent (100.00 is 10000).            *)
(***************************************************************************)
EXTENDS Integers, Sequences, FiniteSets, TLC

VARIABLES
    users,      \* rows of table User, in insertion order
    resumes,    \* rows of table Resume, in insertion order
    session,    \* browser session -> the Flask session dictionary
    docx_file,  \* content of the file final_resume.docx
    request,    \* the request served last
    response    \* the response to it

vars == <<users, resumes, session, docx_file, request, response>>

----------------------------------------------------------------------------
(* Bounds *)

MaxResumes == 1
MaxHistory == 3
MaxJobLen == 5
MaxResumeLen == 2
MaxTextLen == 4

----------------------------------------------------------------------------
(* Characters and strings *)

UpperCase == <<"A","B","C","D","E","F","G","H","I","J","K","L","M",
               "N","O","P","Q","R","S","T","U","V","W","X","Y","Z">>

LowerCase == <<"a","b","c","d","e","f","g","h","i","j","k","l","m",
               "n","o","p","q","r","s","t","u","v","w","x","y","z">>

Range(f) == {f[i] : i \in DOMAIN f}

Whitespace == {" ", "\n", "\t", "\r"}

Letters == Range(UpperCase) \cup Range(LowerCase)

\* str.isalpha() on one character
IsAlphaChar(c) == c \in Letters

ToLower == [c \in Range(UpperCase) |->
               LowerCase[CHOOSE i \in DOMAIN UpperCase : UpperCase[i] = c]]

\* str.lower() on one character
LowerChar(c) == IF c \in DOMAIN ToLower THEN ToLower[c] ELSE c

\* str.lower()
Lower(s) == [i \in DOMAIN s |-> LowerChar(s[i])]

\* str.isalpha(): non-empty and every character alphabetic
IsAlpha(w) == Len(w) > 0 /\ \A i \in DOMAIN w : IsAlphaChar(w[i])

\* str.split(sep) for a one-character separator: k separators give k+1 pieces
RECURSIVE SplitOn(_, _)
SplitOn(s, sep) ==
    IF \A i \in DOMAIN s : s[i] # sep
    THEN <<s>>
    ELSE LET p == CHOOSE i \in DOMAIN s :
                      s[i] = sep /\ \A j \in 1..(i-1) : s[j] # sep
         IN  <<SubSeq(s, 1, p-1)>> \o SplitOn(SubSeq(s, p+1, Len(s)), sep)

\* str.split() without argument: runs of whitespace separate, no empty piece
RECURSIVE SplitWs(_)
SplitWs(s) ==
    IF \A i \in DOMAIN s : s[i] \in Whitespace
    THEN <<>>
    ELSE LET b == CHOOSE i \in DOMAIN s :
                      s[i] \notin Whitespace
                      /\ \A j \in 1..(i-1) : s[j] \in Whitespace
             e == CHOOSE i \in b..Len(s) :
                      (\A j \in b..i : s[j] \notin Whitespace)
                      /\ (i = Len(s) \/ s[i+1] \in Whitespace)
         IN  <<SubSeq(s, b, e)>> \o SplitWs(SubSeq(s, e+1, Len(s)))

\* str.strip()
RECURSIVE Strip(_)
Strip(s) ==
    IF s = <<>> THEN s
    ELSE IF s[1] \in Whitespace THEN Strip(Tail(s))
    ELSE IF s[Len(s)] \in Whitespace THEN Strip(SubSeq(s, 1, Len(s)-1))
    ELSE s

\* the operator  k in t  on strings
IsSubstr(k, t) ==
    \E i \in 1..(Len(t) - Len(k) + 1) : SubSeq(t, i, i + Len(k) - 1) = k

\* round(num/den) to the nearest integer, a tie going to the even neighbour
RoundHalfEven(num, den) ==
    LET q == num \div den
        r == num % den
    IN  IF 2 * r < den THEN q
        ELSE IF 2 * r > den THEN q + 1
        ELSE IF q % 2 = 0 THEN q ELSE q + 1

----------------------------------------------------------------------------
(* Input domains of the application model *)

Sessions == {"s1", "s2"}

Names == {"n"}
Emails == {"e1", "e2"}
SignupPasswords == {"p1"}
Passwords == {"p1", "p2"}

\* an uploaded file: unreadable, or the texts its pages yield (<<>> for a
\* page on which extract_text() finds nothing)
BadPdf == [ok |-> FALSE, pages |-> <<>>]
GoodPdf == [ok |-> TRUE, pages |-> << <<"A", "b">>, <<>> >>]
PdfFiles == {BadPdf, GoodPdf}

JobDescs == { <<>>, <<"a", " ", "c">> }

\* what the remote model answers: a failure, or a text
BadReply == [ok |-> FALSE, text |-> <<>>]
GoodReply == [ok |-> TRUE, text |-> <<" ", "T", "\n">>]
Replies == {BadReply, GoodReply}

FinalTexts == { <<"x">> }
ExportTexts == { <<>>, <<"x">>, <<"L", "\n", "\n", "M">> }

----------------------------------------------------------------------------
(* Requests and responses *)

NoData == [none |-> TRUE]

Req(s, method, route, form) ==
    [sid |-> s, method |-> method, route |-> route, form |-> form]

Redirect(endpoint) ==
    [kind |-> "redirect", status |-> 302, target |-> endpoint, data |-> NoData]

Render(template, data) ==
    [kind |-> "render", status |-> 200, target |-> template, data |-> data]

SendFile(name, content) ==
    [kind |-> "file", status |-> 200, target |-> name,
     data |-> [content |-> content]]

\* an exception no handler catches: Flask answers 500
Unhandled(exception) ==
    [kind |-> "unhandled", status |-> 500, target |-> exception, data |-> NoData]

NoRequest == Req("", "", "", NoData)
NoResponse == [kind |-> "none", status |-> 0, target |-> "", data |-> NoData]

----------------------------------------------------------------------------
(* The session dictionary *)

EmptyDict == [k \in {} |-> 0]

Put(d, k, v) == [x \in DOMAIN d \cup {k} |-> IF x = k THEN v ELSE d[x]]

Has(s, k) == k \in DOMAIN session[s]

----------------------------------------------------------------------------
(* Passwords *)

generate_password_hash(password) == <<"hash", password>>

check_password_hash(pwhash, password) == pwhash = <<"hash", password>>

----------------------------------------------------------------------------
(* Text extraction, app.py lines 82-87 *)

RECURSIVE ExtractText(_)
ExtractText(pages) ==
    IF pages = <<>> THEN <<>>
    ELSE LET text == Head(pages)
         IN  (IF text # <<>> THEN text \o <<"\n">> ELSE <<>>)
             \o ExtractText(Tail(pages))

----------------------------------------------------------------------------
(* Match score, app.py lines 90-92 *)

JobKeywords(job_desc) ==
    LET words == SelectSeq(SplitWs(job_desc), IsAlpha)
    IN  [i \in DOMAIN words |-> Lower(words[i])]

\* MatchCount comparing each keyword with the words of the resume
MatchCountWholeWords(job_keywords, resume_text) ==
    LET words == SplitWs(Lower(resume_text))
    IN  Cardinality({i \in DOMAIN job_keywords :
                        \E k \in DOMAIN words : words[k] = job_keywords[i]})

MatchCount(job_keywords, resume_text) ==
    Cardinality({i \in DOMAIN job_keywords :
                    IsSubstr(job_keywords[i], Lower(resume_text))})

\* MatchPercent dividing by the number of distinct keywords
MatchPercentDistinct(score, job_keywords) ==
    RoundHalfEven(score * 10000, Cardinality(Range(job_keywords)))

\* round((score / len(job_keywords)) * 100, 2), in hundredths of a percent;
\* defined for a non-empty keyword list only
MatchPercent(score, job_keywords) ==
    RoundHalfEven(score * 10000, Len(job_keywords))

----------------------------------------------------------------------------
(* Export writers, app.py lines 128-132 and 150-160 *)

NoDocx == [exists |-> FALSE, heading |-> "", paragraphs |-> <<>>]

\* WriteDocx adding a paragraph for the non-empty lines only
WriteDocxSkipBlank(final_text) ==
    LET NotBlank(line) == line # <<>>
    IN  [exists |-> TRUE, heading |-> "Final Resume",
         paragraphs |-> SelectSeq(SplitOn(final_text, "\n"), NotBlank)]

WriteDocx(final_text) ==
    [exists |-> TRUE, heading |-> "Final Resume",
     paragraphs |-> SplitOn(final_text, "\n")]

WritePdf(final_text) ==
    [exists |-> TRUE, cells |-> SplitOn(final_text, "\n")]

----------------------------------------------------------------------------
(* Initial state: empty tables, no session data, no export file *)

Init ==
    /\ users = <<>>
    /\ resumes = <<>>
    /\ session = [s \in Sessions |-> EmptyDict]
    /\ docx_file = NoDocx
    /\ request = NoRequest
    /\ response = NoResponse

----------------------------------------------------------------------------
(* Route handlers *)

\* GET /
Home(s) ==
    /\ request' = Req(s, "GET", "/", NoData)
    /\ response' = Redirect("signup")
    /\ UNCHANGED <<users, resumes, session, docx_file>>

\* GET /signup
SignupGet(s) ==
    /\ request' = Req(s, "GET", "/signup", NoData)
    /\ response' = Render("signup.html", NoData)
    /\ UNCHANGED <<users, resumes, session, docx_file>>

\* POST /signup; the unique email column rejects a second row with the
\* same email and nothing catches the error
SignupPost(s, name, email, password) ==
    /\ request' = Req(s, "POST", "/signup",
                      [name |-> name, email |-> email, password |-> password])
    /\ IF \E i \in DOMAIN users : users[i].email = email
       THEN /\ response' = Unhandled("IntegrityError")
            /\ UNCHANGED users
       ELSE /\ users' = Append(users,
                               [id |-> Len(users) + 1, name |-> name,
                                email |-> email,
                                password |-> generate_password_hash(password)])
            /\ response' = Redirect("login")
    /\ UNCHANGED <<resumes, session, docx_file>>

\* GET /login
LoginGet(s) ==
    /\ request' = Req(s, "GET", "/login", NoData)
    /\ response' = Render("login.html", NoData)
    /\ UNCHANGED <<users, resumes, session, docx_file>>

\* User.query.filter_by(email=email).first()
UserByEmail(email) ==
    LET found == {i \in DOMAIN users : users[i].email = email}
    IN  IF found = {} THEN <<>>
        ELSE <<users[CHOOSE i \in found : \A j \in found : i <= j]>>

\* POST /login
LoginPost(s, email, password) ==
    /\ request' = Req(s, "POST", "/login",
                      [email |-> email, password |-> password])
    /\ LET user == UserByEmail(email)
       IN  IF user # <<>> /\ check_password_hash(user[1].password, password)
           THEN /\ session' = [session EXCEPT
                                  ![s] = Put(@, "user_id", user[1].id)]
                /\ response' = Redirect("index")
           ELSE /\ response' = Render("login.html",
                                      [error |-> "Invalid credentials"])
                /\ UNCHANGED session
    /\ UNCHANGED <<users, resumes, docx_file>>

\* "user_id" in session
LoggedIn(s) == Has(s, "user_id")

\* GET /index
IndexGet(s) ==
    /\ request' = Req(s, "GET", "/index", NoData)
    /\ IF ~LoggedIn(s)
       THEN response' = Redirect("login")
       ELSE response' = Render("index.html", NoData)
    /\ UNCHANGED <<users, resumes, session, docx_file>>

\* the column default datetime.utcnow: the clock does not run backwards,
\* and two rows may get the same reading
Timestamps ==
    LET last == IF resumes = <<>> THEN 0 ELSE resumes[Len(resumes)].timestamp
    IN  {last, last + 1}

\* IndexPost storing the score in the session before the remote call
IndexPostEarlyStore(s, resume_file, job_desc, reply) ==
    /\ request' = Req(s, "POST", "/index",
                      [resume |-> resume_file, job_desc |-> job_desc])
    /\ UNCHANGED <<users, docx_file>>
    /\ IF ~LoggedIn(s)
       THEN /\ response' = Redirect("login")
            /\ UNCHANGED <<resumes, session>>
       ELSE IF ~resume_file.ok
       THEN /\ response' = Unhandled("PDFSyntaxError")
            /\ UNCHANGED <<resumes, session>>
       ELSE
         LET resume_text == ExtractText(resume_file.pages)
             job_keywords == JobKeywords(job_desc)
             score == MatchCount(job_keywords, resume_text)
         IN  IF Len(job_keywords) = 0
             THEN /\ response' = Unhandled("ZeroDivisionError")
                  /\ UNCHANGED <<resumes, session>>
             ELSE IF ~reply.ok
             THEN /\ response' = Unhandled("RewriteServiceError")
                  /\ session' = [session EXCEPT ![s] =
                        Put(@, "score", MatchPercent(score, job_keywords))]
                  /\ UNCHANGED resumes
             ELSE
               LET match_percent == MatchPercent(score, job_keywords)
                   transformed_resume == Strip(reply.text)
               IN  /\ \E now \in Timestamps :
                        resumes' = Append(resumes,
                            [id |-> Len(resumes) + 1,
                             user_id |-> session[s]["user_id"],
                             original_text |-> resume_text,
                             transformed_text |-> transformed_resume,
                             score |-> match_percent,
                             timestamp |-> now])
                   /\ session' = [session EXCEPT ![s] =
                        Put(Put(@, "transformed_resume", transformed_resume),
                            "score", match_percent)]
                   /\ response' = Render("index.html",
                        [transformed_resume |-> transformed_resume,
                         score |-> match_percent])

\* POST /index
IndexPost(s, resume_file, job_desc, reply) ==
    /\ request' = Req(s, "POST", "/index",
                      [resume |-> resume_file, job_desc |-> job_desc])
    /\ UNCHANGED <<users, docx_file>>
    /\ IF ~LoggedIn(s)
       THEN /\ response' = Redirect("login")
            /\ UNCHANGED <<resumes, session>>
       ELSE IF ~resume_file.ok
       THEN /\ response' = Unhandled("PDFSyntaxError")
            /\ UNCHANGED <<resumes, session>>
       ELSE
         LET resume_text == ExtractText(resume_file.pages)
             job_keywords == JobKeywords(job_desc)
             score == MatchCount(job_keywords, resume_text)
         IN  IF Len(job_keywords) = 0
             THEN /\ response' = Unhandled("ZeroDivisionError")
                  /\ UNCHANGED <<resumes, session>>
             ELSE IF ~reply.ok
             THEN /\ response' = Unhandled("RewriteServiceError")
                  /\ UNCHANGED <<resumes, session>>
             ELSE
               LET match_percent == MatchPercent(score, job_keywords)
                   transformed_resume == Strip(reply.text)
               IN  /\ \E now \in Timestamps :
                        resumes' = Append(resumes,
                            [id |-> Len(resumes) + 1,
                             user_id |-> session[s]["user_id"],
                             original_text |-> resume_text,
                             transformed_text |-> transformed_resume,
                             score |-> match_percent,
                             timestamp |-> now])
                   /\ session' = [session EXCEPT ![s] =
                        Put(Put(@, "transformed_resume", transformed_resume),
                            "score", match_percent)]
                   /\ response' = Render("index.html",
                        [transformed_resume |-> transformed_resume,
                         score |-> match_percent])

\* POST /finalize
Finalize(s, final_text) ==
    /\ request' = Req(s, "POST", "/finalize", [final_text |-> final_text])
    /\ docx_file' = WriteDocx(final_text)
    /\ session' = [session EXCEPT ![s] = Put(@, "final_text", final_text)]
    /\ response' = Redirect("download_options")
    /\ UNCHANGED <<users, resumes>>

\* GET /download-options
DownloadOptions(s) ==
    /\ request' = Req(s, "GET", "/download-options", NoData)
    /\ response' = Render("download_options.html", NoData)
    /\ UNCHANGED <<users, resumes, session, docx_file>>

\* GET /download/docx; send_file raises when the file does not exist
DownloadDocx(s) ==
    /\ request' = Req(s, "GET", "/download/docx", NoData)
    /\ IF docx_file.exists
       THEN response' = SendFile("final_resume.docx", docx_file)
       ELSE response' = Unhandled("FileNotFoundError")
    /\ UNCHANGED <<users, resumes, session, docx_file>>

\* GET /download/pdf; final_resume.pdf is written and sent by the same
\* request and read by no other handler, so the file is no variable
DownloadPdf(s) ==
    /\ request' = Req(s, "GET", "/download/pdf", NoData)
    /\ LET final_text == IF Has(s, "final_text")
                         THEN session[s]["final_text"] ELSE <<>>
       IN  response' = SendFile("final_resume.pdf", WritePdf(final_text))
    /\ UNCHANGED <<users, resumes, session, docx_file>>

\* NewestFirst with the order ascending
OldestFirst(rows) ==
    {out \in [DOMAIN rows -> Range(rows)] :
        /\ \A r \in Range(rows) : \E i \in DOMAIN out : out[i] = r
        /\ \A i, j \in DOMAIN out :
              i < j => out[i].timestamp <= out[j].timestamp}

\* the orders in which ORDER BY timestamp DESC may return rows: any
\* arrangement with non-increasing timestamps
NewestFirst(rows) ==
    {out \in [DOMAIN rows -> Range(rows)] :
        /\ \A r \in Range(rows) : \E i \in DOMAIN out : out[i] = r
        /\ \A i, j \in DOMAIN out :
              i < j => out[i].timestamp >= out[j].timestamp}

\* Resume.query.filter_by(user_id=...)
ResumesOf(user_id) ==
    LET Mine(r) == r.user_id = user_id
    IN  SelectSeq(resumes, Mine)

\* Dashboard with the session read by session.get("user_id"): without a
\* login the query matches no row and the page is rendered
DashboardAnonymous(s) ==
    /\ request' = Req(s, "GET", "/dashboard", NoData)
    /\ IF ~LoggedIn(s)
       THEN response' = Render("dashboard.html", [resumes |-> <<>>])
       ELSE \E out \in NewestFirst(ResumesOf(session[s]["user_id"])) :
               response' = Render("dashboard.html", [resumes |-> out])
    /\ UNCHANGED <<users, resumes, session, docx_file>>

\* GET /dashboard
Dashboard(s) ==
    /\ request' = Req(s, "GET", "/dashboard", NoData)
    /\ IF ~LoggedIn(s)
       THEN response' = Redirect("login")
       ELSE \E out \in NewestFirst(ResumesOf(session[s]["user_id"])) :
               response' = Render("dashboard.html", [resumes |-> out])
    /\ UNCHANGED <<users, resumes, session, docx_file>>

\* Logout removing the account identifier only
LogoutUserOnly(s) ==
    /\ request' = Req(s, "GET", "/logout", NoData)
    /\ session' = [session EXCEPT ![s] =
                      [k \in DOMAIN @ \ {"user_id"} |-> @[k]]]
    /\ response' = Redirect("login")
    /\ UNCHANGED <<users, resumes, docx_file>>

\* GET /logout
Logout(s) ==
    /\ request' = Req(s, "GET", "/logout", NoData)
    /\ session' = [session EXCEPT ![s] = EmptyDict]
    /\ response' = Redirect("login")
    /\ UNCHANGED <<users, resumes, docx_file>>

----------------------------------------------------------------------------------------------------------------------------------------------
(* The application *)

\* any request session s can send; the table Resume is bounded by cap rows
Serve(s, cap) ==
    \/ Home(s)
    \/ SignupGet(s)
    \/ \E n \in Names, e \in Emails, p \in SignupPasswords :
          SignupPost(s, n, e, p)
    \/ LoginGet(s)
    \/ \E e \in Emails, p \in Passwords : LoginPost(s, e, p)
    \/ IndexGet(s)
    \/ /\ Len(resumes) < cap
       /\ \E f \in PdfFiles, j \in JobDescs, r \in Replies :
             IndexPost(s, f, j, r)
    \/ \E t \in FinalTexts : Finalize(s, t)
    \/ DownloadOptions(s)
    \/ DownloadDocx(s)
    \/ DownloadPdf(s)
    \/ Dashboard(s)
    \/ Logout(s)

\* several browsers, each sending any request at any time
Next == \E s \in Sessions : Serve(s, MaxResumes)

Spec == Init /\ [][Next]_vars

\* one browser, a longer history
NextSingle == Serve("s1", MaxHistory)

SpecSingle == Init /\ [][NextSingle]_vars

\* the export routes, which need no login, from several browsers
NextExport ==
    \E s \in Sessions :
        \/ \E t \in ExportTexts : Finalize(s, t)
        \/ DownloadOptions(s)
        \/ DownloadDocx(s)
        \/ DownloadPdf(s)
        \/ Logout(s)

SpecExport == Init /\ [][NextExport]_vars

----------------------------------------------------------------------------
(* The match scorer over all short inputs: one account is logged in and    *)
(* its POST /index, with the job description and the upload drawn from the *)
(* sets below, is served once.                                             *)

SeqsUpTo(S, n) == UNION {[1..k -> S] : k \in 0..n}

JobChars == {"a", "B", "1", " "}
ResumeChars == {"A", "b", " "}

ScenarioJob ==
    <<"L", "o", "o", "k", "i", "n", "g", " ", "f", "o", "r", " ",
       "a", " ", "P", "y", "t", "h", "o", "n", " ", "D", "e", "v",
       "e", "l", "o", "p", "e", "r", " ", "w", "i", "t", "h", " ",
       "S", "Q", "L", " ", "s", "k", "i", "l", "l", "s">>

ScenarioResume ==
    <<"E", "x", "p", "e", "r", "i", "e", "n", "c", "e", "d", " ",
       "P", "y", "t", "h", "o", "n", " ", "d", "e", "v", "e", "l",
       "o", "p", "e", "r", " ", "w", "i", "t", "h", " ", "s", "t",
       "r", "o", "n", "g", " ", "S", "Q", "L", " ", "a", "n", "d",
       " ", "J", "a", "v", "a", " ", "b", "a", "c", "k", "g", "r",
       "o", "u", "n", "d">>

ScorerJobs == SeqsUpTo(JobChars, MaxJobLen) \cup {ScenarioJob}

ScorerPdfs ==
    {[ok |-> TRUE, pages |-> <<t>>] :
        t \in SeqsUpTo(ResumeChars, MaxResumeLen) \cup {ScenarioResume}}

InitScorer ==
    /\ users = <<[id |-> 1, name |-> "n", email |-> "e1",
                  password |-> generate_password_hash("p1")]>>
    /\ resumes = <<>>
    /\ session = [s \in Sessions |->
                    IF s = "s1" THEN Put(EmptyDict, "user_id", 1)
                    ELSE EmptyDict]
    /\ docx_file = NoDocx
    /\ request \in {Req("s1", "POST", "/index",
                        [resume |-> f, job_desc |-> j]) :
                       f \in ScorerPdfs, j \in ScorerJobs}
    /\ response = NoResponse

NextScorer ==
    /\ response = NoResponse
    /\ IndexPost(request.sid, request.form.resume, request.form.job_desc,
                 GoodReply)

SpecScorer == InitScorer /\ [][NextScorer]_vars

----------------------------------------------------------------------------
(* The document writer over all short texts: a POST /finalize with the     *)
(* text drawn from the set below is served once.                           *)

TextChars == {"a", " ", "\n"}

ScenarioText ==
    <<"L", "i", "n", "e", "1", "\n", "\n", "L", "i", "n", "e", "3">>

WriterTexts == SeqsUpTo(TextChars, MaxTextLen) \cup {ScenarioText}

InitWriter ==
    /\ users = <<>>
    /\ resumes = <<>>
    /\ session = [s \in Sessions |-> EmptyDict]
    /\ docx_file = NoDocx
    /\ request \in {Req("s1", "POST", "/finalize", [final_text |-> t]) :
                       t \in WriterTexts}
    /\ response = NoResponse

NextWriter ==
    /\ response = NoResponse
    /\ Finalize(request.sid, request.form.final_text)

SpecWriter == InitWriter /\ [][NextWriter]_vars

----------------------------------------------------------------------------
(* Vocabulary of the properties *)

IsIndexPost(r) == r.route = "/index" /\ r.method = "POST"

IsProtected(r) == r.route \in {"/index", "/dashboard"}

Abs(n) == IF n < 0 THEN -n ELSE n

\* the maximal runs of non-whitespace characters of t, as <<first, last>>
WordRuns(t) ==
    {r \in (DOMAIN t) \X (DOMAIN t) :
        /\ r[1] <= r[2]
        /\ \A i \in r[1]..r[2] : t[i] \notin Whitespace
        /\ (r[1] = 1 \/ t[r[1] - 1] \in Whitespace)
        /\ (r[2] = Len(t) \/ t[r[2] + 1] \in Whitespace)}

\* the runs that are entirely alphabetic: the keywords, one per occurrence
KeywordRuns(t) ==
    {r \in WordRuns(t) : \A i \in r[1]..r[2] : IsAlphaChar(t[i])}

\* the keyword at run r of job occurs in text, letter case ignored
OccursIn(job, r, text) ==
    \E p \in 0..Len(text) :
        /\ p + (r[2] - r[1] + 1) <= Len(text)
        /\ \A k \in 0..(r[2] - r[1]) :
              LowerChar(text[p + 1 + k]) = LowerChar(job[r[1] + k])

FoundRuns(job, text) == {r \in KeywordRuns(job) : OccursIn(job, r, text)}

\* score, in hundredths, is found/total x 100 rounded to two decimals
IsPercentOf(score, found, total) ==
    2 * Abs(score * total - found * 10000) <= total

\* the pending transformed text and score of a session dictionary
Pending(d) ==
    [k \in DOMAIN d \cap {"transformed_resume", "score"} |-> d[k]]

\* the number of newline characters of t
Newlines(t) == Cardinality({i \in DOMAIN t : t[i] = "\n"})

\* the pieces joined by newline characters
RECURSIVE JoinLines(_)
JoinLines(ps) ==
    IF Len(ps) = 0 THEN <<>>
    ELSE IF Len(ps) = 1 THEN ps[1]
    ELSE ps[1] \o <<"\n">> \o JoinLines(Tail(ps))

----------------------------------------------------------------------------
(* C1 *)

\* C1: a POST /index of a logged-in session whose job description yields
\* no keyword ends in a handled outcome, never in an unhandled failure
C1_ZeroKeywordsHandled ==
    (/\ IsIndexPost(request)
     /\ LoggedIn(request.sid)
     /\ request.form.resume.ok
     /\ KeywordRuns(request.form.job_desc) = {})
    => response.kind # "unhandled"

----------------------------------------------------------------------------
(* C2 *)

\* C2: a download by a session that has finalized a text returns an
\* artifact made of the lines of the text that session finalized
C2_DownloadOwnText ==
    (/\ request.route \in {"/download/docx", "/download/pdf"}
     /\ Has(request.sid, "final_text"))
    => /\ response.kind = "file"
       /\ LET own == session[request.sid]["final_text"]
              got == IF request.route = "/download/docx"
                     THEN response.data.content.paragraphs
                     ELSE response.data.content.cells
          IN  JoinLines(got) = own

----------------------------------------------------------------------------
(* C3 *)

----------------------------------------------------------------------------
(* C4 *)

\* C4: every stored record, every pending session score and every score
\* shown by POST /index lies between 0 and 100 (0 and 10000 hundredths)
C4_ScoreInRange ==
    /\ \A i \in DOMAIN resumes : resumes[i].score \in 0..10000
    /\ \A s \in Sessions : Has(s, "score") => session[s]["score"] \in 0..10000
    /\ (IsIndexPost(request) /\ response.kind = "render")
       => response.data.score \in 0..10000

C4_Witness ==
    /\ IsIndexPost(request)
    /\ response.kind = "render"
    /\ resumes # <<>>
    /\ resumes[1].score \in 1..9999

----------------------------------------------------------------------------
(* C5 *)

\* C5: the score of a successful POST /index is found/total x 100 rounded
\* to two decimals, total counting the entirely alphabetic whitespace
\* separated tokens of the job description (each occurrence) and found
\* those that occur, letter case ignored, anywhere in the resume text;
\* the scenario job description has 8 keywords, 5 of them in the scenario
\* resume
C5_ScoreFormula ==
    (IsIndexPost(request) /\ response.kind = "render")
    => LET job == request.form.job_desc
           text == resumes[Len(resumes)].original_text
           total == Cardinality(KeywordRuns(job))
           found == Cardinality(FoundRuns(job, text))
       IN  /\ total > 0
           /\ IsPercentOf(response.data.score, found, total)
           /\ resumes[Len(resumes)].score = response.data.score
           /\ job = ScenarioJob => total = 8
           /\ (job = ScenarioJob /\ text = ScenarioResume \o <<"\n">>)
              => response.data.score = 6250

C5_Witness ==
    /\ IsIndexPost(request)
    /\ response.kind = "render"
    /\ request.form.job_desc = ScenarioJob
    /\ request.form.resume.pages = <<ScenarioResume>>
    /\ response.data.score = 6250

----------------------------------------------------------------------------
(* C6 *)

\* C6: a POST /index that succeeds appends exactly one record, owned by
\* the session's account, and keeps the earlier records; a POST /index
\* that fails leaves the table and the session's pending text and score
\* as they were; no other request changes the table
C6_OneRecordPerRewrite ==
    [][LET post == IsIndexPost(request')
           ok == post /\ response'.kind = "render"
           sid == request'.sid
       IN  /\ ok => /\ Len(resumes') = Len(resumes) + 1
                    /\ SubSeq(resumes', 1, Len(resumes)) = resumes
                    /\ LoggedIn(sid)
                    /\ resumes'[Len(resumes')].user_id = session[sid]["user_id"]
           /\ ~ok => resumes' = resumes
           /\ (post /\ response'.kind = "unhandled")
              => Pending(session'[sid]) = Pending(session[sid])]_vars

C6_Witness ==
    /\ IsIndexPost(request)
    /\ response.kind = "unhandled"
    /\ Len(resumes) >= 2
    /\ Has(request.sid, "score")

----------------------------------------------------------------------------
(* C7 *)

\* C7: the dashboard of a logged-in session lists every record of the
\* session's account exactly once, lists no other record, and lists them
\* with non-increasing timestamps
C7_DashboardOwnNewestFirst ==
    (request.route = "/dashboard" /\ LoggedIn(request.sid))
    => /\ response.kind = "render"
       /\ response.target = "dashboard.html"
       /\ LET out == response.data.resumes
              uid == session[request.sid]["user_id"]
              mine == {i \in DOMAIN resumes : resumes[i].user_id = uid}
          IN  /\ Len(out) = Cardinality(mine)
              /\ \A i \in mine : \E k \in DOMAIN out : out[k] = resumes[i]
              /\ \A k \in DOMAIN out : out[k].user_id = uid
              /\ \A k, l \in DOMAIN out :
                    k < l => out[k].timestamp >= out[l].timestamp

C7_Witness ==
    /\ request.route = "/dashboard"
    /\ LoggedIn(request.sid)
    /\ response.kind = "render"
    /\ Len(response.data.resumes) = 2
    /\ response.data.resumes[1].timestamp > response.data.resumes[2].timestamp
    /\ Len(resumes) = 3

----------------------------------------------------------------------------
(* C8 *)

\* C8: GET /logout empties the session dictionary of the requesting
\* session, redirects to /login and leaves the other sessions alone; a
\* session gets a user_id only by a POST /login that is accepted; and
\* while it has none its requests to /index and /dashboard are redirected
\* to /login
C8_LogoutClearsSession ==
    [][LET sid == request'.sid
       IN  /\ request'.route = "/logout"
              => /\ session'[sid] = EmptyDict
                 /\ response' = Redirect("login")
                 /\ \A o \in Sessions \ {sid} : session'[o] = session[o]
           /\ \A s \in Sessions :
                 (~LoggedIn(s) /\ "user_id" \in DOMAIN session'[s])
                 => /\ request'.route = "/login"
                    /\ request'.method = "POST"
                    /\ sid = s
                    /\ response' = Redirect("index")
           /\ (IsProtected(request') /\ ~LoggedIn(sid))
              => response' = Redirect("login")]_vars

C8_Witness ==
    /\ request.route = "/logout"
    /\ response = Redirect("login")
    /\ session[request.sid] = EmptyDict
    /\ \E o \in Sessions \ {request.sid} :
          LoggedIn(o) /\ Has(o, "score") /\ Has(o, "final_text")

----------------------------------------------------------------------------
(* C9 *)

\* C9: GET /download/docx while no final_resume.docx exists ends in a
\* handled DownloadNotFound outcome, not in an unhandled failure
C9_DownloadNotFoundHandled ==
    (request.route = "/download/docx" /\ ~docx_file.exists)
    => response.kind # "unhandled"

----------------------------------------------------------------------------
(* C10 *)

\* C10: after POST /finalize the document has the heading "Final Resume"
\* and one paragraph per newline-separated line of the text: none holds a
\* newline, there is one more of them than newlines in the text, and
\* joined by newlines they give the text back; the scenario text gives
\* three paragraphs, the middle one empty; the empty text is accepted
C10_ParagraphPerLine ==
    (request.route = "/finalize" /\ response.kind # "none")
    => LET text == request.form.final_text
           ps == docx_file.paragraphs
       IN  /\ response = Redirect("download_options")
           /\ docx_file.exists
           /\ docx_file.heading = "Final Resume"
           /\ Len(ps) = Newlines(text) + 1
           /\ \A i \in DOMAIN ps : Newlines(ps[i]) = 0
           /\ JoinLines(ps) = text
           /\ text = ScenarioText
              => ps = << <<"L", "i", "n", "e", "1">>, <<>>,
                         <<"L", "i", "n", "e", "3">> >>
           /\ text = <<>> => ps = << <<>> >>

C10_Witness ==
    /\ request.route = "/finalize"
    /\ response.kind # "none"
    /\ request.form.final_text = ScenarioText
    /\ Len(docx_file.paragraphs) = 3
    /\ docx_file.paragraphs[2] = <<>>

====
